---- MODULE Spec2Model ----
(***************************************************************************)
(* WirelessDMXReceiver: the channel / unit-ID scan of begin() and the      *)
(* frame validation, sequence tracking and universe reassembly of the      *)
(* receive task (_dmxReceiveLoop).                                         *)
(*                                                                         *)
(* The radio driver (RF24) is an external collaborator: what it returns    *)
(* (payload available, FIFO full, the 32 bytes read) is an input of the    *)
(* step that asks for it.  The variable air describes what is on the air:   *)
(* where the transmitter sits, whether it is on, and the headers of the    *)
(* frames the radio has handed to the receive task so far (air.log).       *)
(***************************************************************************)
EXTENDS Integers, Sequences, FiniteSets, TLC

(***************************************************************************)
(* Program constants                                                       *)
(***************************************************************************)
DMX_BUFSIZE == 512
WDMX_PAYLOAD_SIZE == 32
WDMX_HEADER_SIZE == 4
WDMX_MAGIC_1 == 128
WDMX_MAGIC_2 == 160

\* enum wdmxID_t
AUTO == 0
RED == 1
WHITE == 7

\* sizeof(rxBuf.dmxData)
DataSize == WDMX_PAYLOAD_SIZE - WDMX_HEADER_SIZE

\* the channel value at which _scanNext wraps the channel cursor (_channel > 126)
ScanChannelLimit == 126

\* the radio's channels: RadioChannel is an integer in [0,126)
NumChannels == 126

Byte == 0..255

UnitIDs == RED..WHITE

(***************************************************************************)
(* Bounds of the model                                                     *)
(***************************************************************************)
\* frames the air delivers to the receive task in one run (arbitrary traffic)
MaxFrames == 3
\* frames a compatible transmitter streams to the receive task in one run
MaxStreamFrames == 40
\* FIFO-full reports counted in one run
MaxOverruns == 1
\* frames delivered to the receive task in a run that explores the scan
MaxScanFrames == 1
\* begin calls on one receiver in a run that calls begin repeatedly
MaxSessions == 2
\* frames delivered to the receive tasks in such a run
MaxSessionFrames == 2
\* the capacity of the capture ring in the model; the program's ring holds 2048
\* packets (RingBuf<wdmxReceiveBuffer, 2048>)
CaptureCapacity == 3
\* frames delivered to the receive task in a run that explores the capture
MaxCaptureFrames == 5
\* frames delivered to the receive task in a run with a consumer reading
MaxReadFrames == 6
\* getValues calls of the consumer in such a run
MaxReads == 1
\* frames delivered to the receive task in a run that explores the FIFO polls
MaxPollFrames == 3
\* frames delivered to the receive task in a run with sequence indices beyond
\* the universe
MaxNoiseFrames == 2

(***************************************************************************)
(* State                                                                    *)
(***************************************************************************)
VARIABLES
    pc,             \* where the application's thread is: idle, scan, callback, running
    scanCallback,   \* begin's scanCallback argument is non-empty
    _configID,      \* wdmxID_t _configID
    _ID,            \* wdmxID_t _ID
    _channel,       \* unsigned int _channel
    _locked,        \* bool _locked
    _rxCount,       \* frames received
    _rxInvalid,     \* frames with invalid header
    _rxOverruns,    \* FIFO-full reports
    _rxSeqErrors,   \* gaps in sequence numbers
    dmxBuffer,      \* uint8_t dmxBuffer[DMX_BUFSIZE], indexed 0..511
    prevPayloadID,  \* local of _dmxReceiveLoop
    firstFrame,     \* local of _dmxReceiveLoop
    rxBuf,          \* local wdmxReceiveBuffer rxBuf: the frame last read
    radio,          \* the transceiver: reading pipe address and tuned channel
    air,            \* the environment: the transmitter and the traffic
    _lastRxMillis,  \* unsigned long _lastRxMillis
    _capture,       \* bool _capture
    _captureBuffer, \* RingBuf<wdmxReceiveBuffer, 2048> _captureBuffer, oldest first
    serial,         \* printCapture: the packets written to Serial, and whether it runs
    oldTasks,       \* the locals of the receive tasks that earlier begin calls started
    reader          \* a consumer's getValues call: what it has copied so far

vars == <<pc, scanCallback, _configID, _ID, _channel, _locked, _rxCount, _rxInvalid,
          _rxOverruns, _rxSeqErrors, dmxBuffer, prevPayloadID, firstFrame, rxBuf,
          radio, air, _lastRxMillis, _capture, _captureBuffer, serial, oldTasks, reader>>

scanVars == <<_configID, _ID, _channel, _locked>>
counters == <<_rxCount, _rxInvalid, _rxOverruns, _rxSeqErrors>>
taskLocals == <<prevPayloadID, firstFrame, rxBuf>>
captureVars == <<_capture, _captureBuffer, serial>>
appVars == <<_lastRxMillis, oldTasks, reader>>

(***************************************************************************)
(* Helpers                                                                  *)
(***************************************************************************)
Min(a, b) == IF a < b THEN a ELSE b

\* the top of the unsigned range.  size_t and unsigned int have 32 bits on the
\* ESP32; the model checker's integers end at 2^31 - 1, which stands for it
SIZE_MAX == 2147483647

\* conversion of a difference to size_t: a value below zero wraps around to
\* the top of the unsigned range
SizeT(x) == IF x >= 0 THEN x ELSE SIZE_MAX + x + 1

\* conversion to uint8_t
U8(x) == x % 256

\* bitwise complement of the low byte
NotU8(x) == 255 - U8(x)

IsMagic(m) == (m = WDMX_MAGIC_1) \/ (m = WDMX_MAGIC_2)

\* a variant with the two complement bytes in each other's place
_getAddressSwapped(channel, id) ==
    <<U8(channel), U8(id), NotU8(id), NotU8(channel), U8(channel + id)>>

\* _getAddress: the five bytes of union wdmxAddress, in memory order
_getAddress(channel, id) ==
    <<U8(channel), U8(id), NotU8(channel), NotU8(id), U8(channel + id)>>

\* operator++ (wdmxID_t&)
IncID(id) == (id + 1) % 8

(***************************************************************************)
(* The air: a transmitter on (air.channel, air.id) and the frames sent      *)
(***************************************************************************)
\* the value of DMX channel i (0-based) in the universe the transmitter holds
\* when it sends its n-th frame: a recognisable pattern, different per frame
TxByte(n, i) == (i + 37 * n + 1) % 256

\* struct wdmxReceiveBuffer; slice k carries channels 28k .. 28k+27 of the
\* universe, the slice that straddles channel 511 going on with channel 0
Frame(m, k, h, n) ==
    [magic |-> m, payloadID |-> k, highestChannelID |-> h,
     dmxData |-> [j \in 0..(DataSize - 1) |-> TxByte(n, (k * DataSize + j) % DMX_BUFSIZE)]]

\* the header of a frame, as the log of delivered frames keeps it
Header(frame) ==
    [magic |-> frame.magic, payloadID |-> frame.payloadID,
     highestChannelID |-> frame.highestChannelID]

\* rxBuf before the first read
NoFrame == [magic |-> 0, payloadID |-> 0, highestChannelID |-> 0,
            dmxData |-> [j \in 0..(DataSize - 1) |-> 0]]

\* the last slice of a full universe: 511 / 28 = 18
LastSlice == (DMX_BUFSIZE - 1) \div DataSize

\* the magics of frames that are not Wireless DMX
NoiseMagics == {0, 255}

\* what the radio may hand to the receive task as its n-th frame: slices of a
\* full universe and of an 84-channel universe (wrap index 2), in any order,
\* with either magic, and frames that are not Wireless DMX
RxFrames(n) ==
    {Frame(WDMX_MAGIC_1, k, DMX_BUFSIZE - 1, n) : k \in {0, 1, 3, LastSlice - 2, LastSlice}}
    \cup {Frame(WDMX_MAGIC_1, k, 83, n) : k \in {0, 2, 3}}
    \cup {Frame(WDMX_MAGIC_2, 0, DMX_BUFSIZE - 1, n)}
    \cup {Frame(0, LastSlice, DMX_BUFSIZE - 1, n), Frame(255, 1, 83, n)}

\* the slice a compatible transmitter sends after slice k of a universe whose
\* highest channel is h
NextSlice(k, h) == IF k = h \div DataSize THEN 0 ELSE k + 1

\* the n-th frame (n = 0, 1, ...) of a transmitter that starts with slice
\* `first`; every 14th frame carries the second magic
RECURSIVE StreamSlice(_, _, _)
StreamSlice(first, h, n) ==
    IF n = 0 THEN first ELSE NextSlice(StreamSlice(first, h, n - 1), h)

StreamMagic(n) == IF n % 14 = 13 THEN WDMX_MAGIC_2 ELSE WDMX_MAGIC_1

StreamFrame(n) == Frame(StreamMagic(n), StreamSlice(air.first, air.h, n), air.h, n)

\* the radio tuned by _scanChannel: openReadingPipe(0, address), setChannel
Tuned(channel, id) == [pipe |-> _getAddress(channel, id), channel |-> channel]

\* the radio before the first probe: no pipe open
Untuned == [pipe |-> <<>>, channel |-> 0]

\* no getValues call is under way and none has returned yet
NoReader == [at |-> 0, length |-> 0, copied |-> <<>>, calls |-> 0]

\* millis(), the clock a frame's time of reception is read from, in units of
\* frame times: the n-th frame is read at time n
millis == air.count

\* the tuned radio receives the transmitter's frames
Heard(r) ==
    /\ air.on
    /\ r.pipe = _getAddress(air.channel, air.id)
    /\ r.channel = air.channel

\* no payload within the 10 ms listen window
Timeout == 0 - 1

\* what a probe of the tuned radio can yield: the magic of the frame read, or
\* a timeout; away from the transmitter only noise is ever read
ProbeOutcomes(r) ==
    IF Heard(r)
      THEN {WDMX_MAGIC_1, WDMX_MAGIC_2} \cup (IF oldTasks # <<>> THEN {Timeout} ELSE {})
      ELSE {Timeout} \cup NoiseMagics

(***************************************************************************)
(* begin(): initial configuration, scan loop, buffer clear, task start     *)
(***************************************************************************)
\* a variant that takes any frame read for a transmitter
_scanChannelAnyFrame(outcome) == outcome # Timeout

\* the return value of _scanChannel for a probe outcome
_scanChannel(outcome) == (outcome # Timeout) /\ IsMagic(outcome)

\* _scanNext: the channel cursor has run past its last value
ChannelWraps(c) == c > ScanChannelLimit

\* a variant that takes operator++ past WHITE, to AUTO
NextUnitIDWraps(id) == IncID(id)

\* a variant that stays on WHITE
NextUnitIDStuck(id) == IF id < WHITE THEN IncID(id) ELSE WHITE

\* _scanNext: the unit ID after a full channel sweep in AUTO mode
NextUnitID(id) == IF id < WHITE THEN IncID(id) ELSE RED

\* a variant without the early return on a lock
ScanChannelAlways(found, c) == IF ChannelWraps(c + 1) THEN 0 ELSE c + 1

\* _scanNext: _channel after a probe that found a transmitter or not
ScanChannel(found, c) ==
    IF found THEN c ELSE IF ChannelWraps(c + 1) THEN 0 ELSE c + 1

\* a variant that steps the unit ID whatever ID begin was given
ScanIDAnyConfig(found, c, id, cfg) ==
    IF found THEN id
    ELSE IF ChannelWraps(c + 1) THEN NextUnitID(id) ELSE id

\* _scanNext: _ID after a probe that found a transmitter or not
ScanID(found, c, id, cfg) ==
    IF found THEN id
    ELSE IF ChannelWraps(c + 1) /\ (cfg = AUTO) THEN NextUnitID(id) ELSE id

\* begin: the unit ID the scan starts with
FirstUnitID(cfg) == IF cfg = AUTO THEN RED ELSE cfg

Begin ==
    /\ pc = "idle"
    /\ \E id \in {AUTO} \cup UnitIDs, cb \in BOOLEAN :
        /\ _configID' = id
        /\ _channel' = 0
        /\ _locked' = FALSE
        /\ _ID' = FirstUnitID(id)
        /\ scanCallback' = cb
    /\ pc' = "scan"
    /\ UNCHANGED <<counters, dmxBuffer, taskLocals, radio, air, captureVars, appVars>>

\* a variant that skips the callback after the attempt that locked
AfterProbeUnlessLocked(callback, locked) ==
    IF callback /\ ~locked THEN "callback" ELSE "scan"

\* where begin's loop goes after _scanNext returns: into the callback if the
\* caller gave one, whatever the attempt found, and to the loop's test if not
AfterProbe(callback, locked) ==
    IF callback THEN "callback" ELSE "scan"

_scanNext ==
    /\ pc = "scan"
    /\ ~_locked
    /\ radio' = Tuned(_channel, _ID)
    /\ \E outcome \in ProbeOutcomes(radio') :
        /\ _locked' = _scanChannel(outcome)
        /\ _channel' = ScanChannel(_locked', _channel)
        /\ _ID' = ScanID(_locked', _channel, _ID, _configID)
    /\ pc' = AfterProbe(scanCallback, _locked')
    /\ UNCHANGED <<scanCallback, _configID, counters, dmxBuffer, taskLocals, air,
                   captureVars, appVars>>

\* scanCallback(): the caller's code between two scan attempts
ScanCallback ==
    /\ pc = "callback"
    /\ pc' = "scan"
    /\ UNCHANGED <<scanCallback, scanVars, counters, dmxBuffer, taskLocals, radio, air,
                   captureVars, appVars>>

ClearedBuffer == [i \in 0..(DMX_BUFSIZE - 1) |-> 0]

\* a variant that leaves the scan loop after the first attempt, locked or not
BeginFinishEager ==
    /\ pc = "scan"
    /\ radio # Untuned
    /\ dmxBuffer' = ClearedBuffer
    /\ prevPayloadID' = 0
    /\ firstFrame' = TRUE
    /\ pc' = "running"
    /\ scanCallback' = FALSE
    /\ UNCHANGED <<scanVars, counters, rxBuf, radio, air, captureVars, appVars>>

\* begin after the scan loop: memset of dmxBuffer, then the receive task starts
\* with its locals initialised
BeginFinish ==
    /\ pc = "scan"
    /\ _locked
    /\ dmxBuffer' = ClearedBuffer
    /\ prevPayloadID' = 0
    /\ firstFrame' = TRUE
    /\ pc' = "running"
    /\ scanCallback' = FALSE
    /\ UNCHANGED <<scanVars, counters, rxBuf, radio, air, captureVars, appVars>>

\* begin called again on a receiver whose receive task is running, asking for
\* the transmitter's unit ID: nothing stops that task, it goes on with its own
\* locals
BeginAgain ==
    /\ pc = "running"
    /\ Len(oldTasks) + 1 < MaxSessions
    /\ \E id \in {RED}, cb \in BOOLEAN :
        /\ _configID' = id
        /\ _channel' = 0
        /\ _locked' = FALSE
        /\ _ID' = FirstUnitID(id)
        /\ scanCallback' = cb
    /\ pc' = "scan"
    /\ oldTasks' = Append(oldTasks, [prevPayloadID |-> prevPayloadID,
                                     firstFrame |-> firstFrame, rxBuf |-> rxBuf])
    /\ UNCHANGED <<counters, dmxBuffer, taskLocals, radio, air, captureVars,
                   _lastRxMillis, reader>>

\* the receive tasks that exist: xTaskCreatePinnedToCore adds one per begin
ReceiveTasks == Len(oldTasks) + (IF pc = "running" THEN 1 ELSE 0)

\* the transmitter is switched on
TxPowerOn ==
    /\ ~air.on
    /\ air' = [air EXCEPT !.on = TRUE]
    /\ UNCHANGED <<pc, scanCallback, scanVars, counters, dmxBuffer, taskLocals, radio,
                   captureVars, appVars>>

(***************************************************************************)
(* _dmxReceiveLoop: one iteration of while (true)                           *)
(***************************************************************************)
\* a variant that copies from the start of the source
MemcpyFromStart(dst, at, src, from, n) ==
    [i \in DOMAIN dst |-> IF (at <= i) /\ (i < at + n) THEN src[i - at] ELSE dst[i]]

\* memcpy(&dst[at], &src[from], n) on a buffer indexed from 0
Memcpy(dst, at, src, from, n) ==
    [i \in DOMAIN dst |-> IF (at <= i) /\ (i < at + n) THEN src[from + (i - at)] ELSE dst[i]]

\* a variant that counts the header into the offset
DmxChanStartHeader(frame) == frame.payloadID * DataSize + WDMX_HEADER_SIZE

\* int dmxChanStart = rxBuf.payloadID * sizeof(rxBuf.dmxData)
DmxChanStart(frame) == frame.payloadID * DataSize

\* a variant without the second memcpy
PutPayloadNoWrap(buf, frame) ==
    Memcpy(buf, DmxChanStart(frame), frame.dmxData, 0,
           Min(DataSize, SizeT(DMX_BUFSIZE - DmxChanStart(frame))))

\* the two memcpy calls that put a payload into the DMX buffer, the second one
\* wrapping what goes beyond channel 512 over to the start
PutPayload(buf, frame) ==
    LET start == DmxChanStart(frame)
        head == Memcpy(buf, start, frame.dmxData, 0,
                       Min(DataSize, SizeT(DMX_BUFSIZE - start)))
    IN  IF start + DataSize > DMX_BUFSIZE
          THEN Memcpy(head, 0, frame.dmxData, SizeT(DMX_BUFSIZE - start),
                      SizeT(start + DataSize - DMX_BUFSIZE))
          ELSE head

\* a variant that accepts every frame
ValidMagicAny(frame) == frame.magic \in Byte

\* the frame's magic is one of the two accepted values
ValidMagic(frame) == ~((frame.magic # WDMX_MAGIC_1) /\ (frame.magic # WDMX_MAGIC_2))

\* a variant that does not know the wrap to slice 0
SeqGapNoWrap(frame, prev) == frame.payloadID # prev + 1

\* a variant that takes the whole radio payload for the slice size
SeqGapPayloadSize(frame, prev) ==
    \/ (frame.payloadID > 0) /\ (frame.payloadID # prev + 1)
    \/ (frame.payloadID = 0) /\ (prev # frame.highestChannelID \div WDMX_PAYLOAD_SIZE)

\* the condition under which a frame that is not the first counts as a gap
SeqGap(frame, prev) ==
    \/ (frame.payloadID > 0) /\ (frame.payloadID # prev + 1)
    \/ (frame.payloadID = 0) /\ (prev # frame.highestChannelID \div DataSize)

(***************************************************************************)
(* The capture ring (library RingBuf): a bounded queue, oldest first        *)
(***************************************************************************)
\* RingBuf::isFull
isFull(ring) == Len(ring) = CaptureCapacity

\* RingBuf::pushOverwrite: a full ring gives up its oldest element
pushOverwrite(ring, e) == Append(IF isFull(ring) THEN Tail(ring) ELSE ring, e)

\* a variant that captures only the frames that pass the magic test
CaptureValidOnly(ring, on, frame) ==
    IF on /\ IsMagic(frame.magic) THEN pushOverwrite(ring, frame) ELSE ring

\* if (_capture) _captureBuffer.pushOverwrite(rxBuf)
Capture(ring, on, frame) == IF on THEN pushOverwrite(ring, frame) ELSE ring

\* a variant that polls the FIFO only when it has a payload to process
PollFifoWhenAvailable(n, fifoFull, available) ==
    IF fifoFull /\ available THEN n + 1 ELSE n

\* if (_radio.rxFifoFull()) _rxOverruns++, ahead of the test for a payload
PollFifo(n, fifoFull, available) == IF fifoFull THEN n + 1 ELSE n

\* one iteration: the radio reports its FIFO full or not, and a payload
\* available or not; an available payload is read into rxBuf and processed
_dmxReceiveLoop(fifoFull, available, frame) ==
    /\ pc = "running"
    /\ _rxOverruns' = PollFifo(_rxOverruns, fifoFull, available)
    /\ IF ~available
         THEN UNCHANGED <<_rxCount, _rxInvalid, _rxSeqErrors, dmxBuffer, taskLocals,
                          _captureBuffer>>
         ELSE /\ rxBuf' = frame
              /\ _captureBuffer' = Capture(_captureBuffer, _capture, frame)
              /\ IF ~ValidMagic(frame)
                   THEN /\ _rxInvalid' = _rxInvalid + 1
                        /\ UNCHANGED <<_rxCount, _rxSeqErrors, dmxBuffer,
                                       prevPayloadID, firstFrame>>
                   ELSE /\ firstFrame' = FALSE
                        /\ _rxSeqErrors' =
                               IF ~firstFrame /\ SeqGap(frame, prevPayloadID)
                                 THEN _rxSeqErrors + 1 ELSE _rxSeqErrors
                        /\ _rxCount' = _rxCount + 1
                        /\ prevPayloadID' = frame.payloadID
                        /\ dmxBuffer' = PutPayload(dmxBuffer, frame)
                        /\ UNCHANGED _rxInvalid
    /\ UNCHANGED <<pc, scanCallback, scanVars, radio, _capture, serial, appVars>>

\* the FIFO-full reports the radio may give: a full FIFO holds a payload
FifoReports == {FALSE} \cup (IF _rxOverruns < MaxOverruns THEN {TRUE} ELSE {})

\* an iteration that finds nothing to read
RxIdle ==
    /\ _dmxReceiveLoop(FALSE, FALSE, NoFrame)
    /\ UNCHANGED air

\* an iteration under arbitrary traffic: any frame of RxFrames is read
RxAny ==
    /\ air.count < air.limit
    /\ \E fifoFull \in FifoReports, frame \in RxFrames(air.count) :
        _dmxReceiveLoop(fifoFull, TRUE, frame)
    /\ air' = [air EXCEPT !.count = @ + 1, !.log = Append(@, Header(rxBuf'))]

\* one iteration of the loop of the task that the i-th begin call started,
\* reading a payload, after a later begin call: the same code on the shared
\* members, with that task's own locals.  The tasks are pinned to the same
\* core, so their iterations interleave
OldTaskLoop(i, fifoFull, frame) ==
    LET t == oldTasks[i]
        valid == ValidMagic(frame)
        gap == ~t.firstFrame /\ SeqGap(frame, t.prevPayloadID)
    IN  /\ _rxOverruns' = PollFifo(_rxOverruns, fifoFull, TRUE)
        /\ _captureBuffer' = Capture(_captureBuffer, _capture, frame)
        /\ _rxInvalid' = IF valid THEN _rxInvalid ELSE _rxInvalid + 1
        /\ _rxSeqErrors' = IF valid /\ gap THEN _rxSeqErrors + 1 ELSE _rxSeqErrors
        /\ _rxCount' = IF valid THEN _rxCount + 1 ELSE _rxCount
        /\ dmxBuffer' = IF valid THEN PutPayload(dmxBuffer, frame) ELSE dmxBuffer
        /\ oldTasks' = [oldTasks EXCEPT ![i] =
                           IF valid THEN [prevPayloadID |-> frame.payloadID,
                                          firstFrame |-> FALSE, rxBuf |-> frame]
                                    ELSE [t EXCEPT !.rxBuf = frame]]
        /\ UNCHANGED <<pc, scanCallback, scanVars, radio, taskLocals, _capture, serial,
                       _lastRxMillis, reader>>

\* what the radio hands to a receive task in a run with repeated begin calls
SessionFrames(n) ==
    {Frame(WDMX_MAGIC_1, 1, DMX_BUFSIZE - 1, n), Frame(0, 1, DMX_BUFSIZE - 1, n)}

\* an iteration of the newest task in such a run
RxSession ==
    /\ air.count < air.limit
    /\ \E fifoFull \in FifoReports, frame \in SessionFrames(air.count) :
        _dmxReceiveLoop(fifoFull, TRUE, frame)
    /\ air' = [air EXCEPT !.count = @ + 1, !.log = Append(@, Header(rxBuf'))]

\* an iteration of a task of an earlier begin call
RxOld ==
    /\ air.count < air.limit
    /\ \E i \in 1..Len(oldTasks), fifoFull \in FifoReports,
          frame \in SessionFrames(air.count) :
        /\ OldTaskLoop(i, fifoFull, frame)
        /\ air' = [air EXCEPT !.count = @ + 1, !.log = Append(@, Header(frame))]

\* what the radio hands to the receive task in a run that explores the
\* capture: the next slice of a full universe, or a frame that is not
\* Wireless DMX
CaptureFrames(n) ==
    {Frame(WDMX_MAGIC_1, n % (LastSlice + 1), DMX_BUFSIZE - 1, n), Frame(255, 1, 83, n)}

\* an iteration in such a run, the FIFO not full; air.captured keeps the
\* frames read while _capture was set, since the ring was last found empty by
\* printCapture
RxCapture ==
    /\ air.count < air.limit
    /\ \E frame \in CaptureFrames(air.count) : _dmxReceiveLoop(FALSE, TRUE, frame)
    /\ air' = [air EXCEPT !.count = @ + 1, !.log = Append(@, Header(rxBuf')),
                          !.captured = IF _capture THEN Append(@, rxBuf') ELSE @]

(***************************************************************************)
(* The capture interface, called by the application's thread                *)
(***************************************************************************)
\* the application's thread is not inside begin
AppFree == pc \in {"idle", "running"}

startCapture ==
    /\ AppFree
    /\ ~serial.busy
    /\ _capture' = TRUE
    /\ UNCHANGED <<pc, scanCallback, scanVars, counters, dmxBuffer, taskLocals, radio, air,
                   _captureBuffer, serial, appVars>>

stopCapture ==
    /\ AppFree
    /\ ~serial.busy
    /\ _capture' = FALSE
    /\ UNCHANGED <<pc, scanCallback, scanVars, counters, dmxBuffer, taskLocals, radio, air,
                   _captureBuffer, serial, appVars>>

isCaptureBufferFull == isFull(_captureBuffer)

\* printCapture is entered: nothing printed yet
printCapture ==
    /\ AppFree
    /\ ~serial.busy
    /\ serial' = [out |-> <<>>, busy |-> TRUE]
    /\ air' = [air EXCEPT !.drainFrom = Len(air.captured)]
    /\ UNCHANGED <<pc, scanCallback, scanVars, counters, dmxBuffer, taskLocals, radio,
                   _capture, _captureBuffer, appVars>>

\* a variant of the loop that takes the newest packet first
PrintNextNewestFirst ==
    /\ serial.busy
    /\ IF _captureBuffer = <<>>
         THEN /\ serial' = [serial EXCEPT !.busy = FALSE]
              /\ air' = [air EXCEPT !.captured = <<>>]
              /\ UNCHANGED _captureBuffer
         ELSE /\ serial' = [serial EXCEPT !.out = Append(@, _captureBuffer[Len(_captureBuffer)])]
              /\ _captureBuffer' = SubSeq(_captureBuffer, 1, Len(_captureBuffer) - 1)
              /\ UNCHANGED air
    /\ UNCHANGED <<pc, scanCallback, scanVars, counters, dmxBuffer, taskLocals, radio,
                   _capture, appVars>>

\* one turn of while (_captureBuffer.pop(buf)): pop takes the oldest packet,
\* which is printed, or finds the ring empty, which ends printCapture
PrintNext ==
    /\ serial.busy
    /\ IF _captureBuffer = <<>>
         THEN /\ serial' = [serial EXCEPT !.busy = FALSE]
              /\ air' = [air EXCEPT !.captured = <<>>]
              /\ UNCHANGED _captureBuffer
         ELSE /\ serial' = [serial EXCEPT !.out = Append(@, Head(_captureBuffer))]
              /\ _captureBuffer' = Tail(_captureBuffer)
              /\ UNCHANGED air
    /\ UNCHANGED <<pc, scanCallback, scanVars, counters, dmxBuffer, taskLocals, radio,
                   _capture, appVars>>

(***************************************************************************)
(* The consumer: getValues, a memcpy out of dmxBuffer on the caller's thread *)
(***************************************************************************)
\* the calls getValues(startAddress, length) the consumer makes: four channels
\* across the border of slices 0 and 1, and of slices 1 and 2
ReadRanges == {<<27, 4>>, <<55, 4>>}

\* getValues is entered: memcpy(buffer, &dmxBuffer[startAddress - 1], length)
\* has copied nothing yet
getValues ==
    /\ pc = "running"
    /\ Len(reader.copied) = reader.length
    /\ reader.calls < MaxReads
    /\ \E range \in ReadRanges :
        reader' = [at |-> range[1] - 1, length |-> range[2], copied |-> <<>>,
                   calls |-> reader.calls + 1]
    /\ UNCHANGED <<pc, scanCallback, scanVars, counters, dmxBuffer, taskLocals, radio, air,
                   captureVars, _lastRxMillis, oldTasks>>

\* a variant that suspends the receive task until the copy is complete
GetValuesCopyLocked ==
    /\ Len(reader.copied) < reader.length
    /\ \E n \in 1..(reader.length - Len(reader.copied)) :
        reader' = [reader EXCEPT !.copied =
                      @ \o [j \in 1..n |-> dmxBuffer[reader.at + Len(@) + j - 1]]]
    /\ pc' = IF Len(reader'.copied) < reader.length THEN "reading" ELSE "running"
    /\ UNCHANGED <<scanCallback, scanVars, counters, dmxBuffer, taskLocals, radio, air,
                   captureVars, _lastRxMillis, oldTasks>>

\* the memcpy goes on for some bytes, taking them as dmxBuffer holds them now;
\* the receive task may run between any two bytes
GetValuesCopy ==
    /\ Len(reader.copied) < reader.length
    /\ \E n \in 1..(reader.length - Len(reader.copied)) :
        reader' = [reader EXCEPT !.copied =
                      @ \o [j \in 1..n |-> dmxBuffer[reader.at + Len(@) + j - 1]]]
    /\ UNCHANGED <<pc, scanCallback, scanVars, counters, dmxBuffer, taskLocals, radio, air,
                   captureVars, _lastRxMillis, oldTasks>>

\* what the radio hands to the receive task in a run that explores the FIFO
\* polls: two slices of a full universe and a frame that is not Wireless DMX
PollFrames(n) ==
    {Frame(WDMX_MAGIC_1, k, DMX_BUFSIZE - 1, n) : k \in {0, 1}}
    \cup {Frame(0, 1, DMX_BUFSIZE - 1, n)}

\* an iteration in such a run: rxFifoFull() and available() are two separate
\* questions to the radio and each answer is drawn on its own; air.full counts
\* the times the radio has answered that its FIFO is full
RxPoll ==
    /\ \E fifoFull \in FifoReports, available \in BOOLEAN :
        /\ available => (air.count < air.limit)
        /\ \E frame \in (IF available THEN PollFrames(air.count) ELSE {NoFrame}) :
            _dmxReceiveLoop(fifoFull, available, frame)
        /\ air' = [air EXCEPT !.count = IF available THEN @ + 1 ELSE @,
                              !.log = IF available THEN Append(@, Header(rxBuf')) ELSE @,
                              !.full = IF fifoFull THEN @ + 1 ELSE @]

\* the indices of dmxBuffer that the two memcpy calls write for a frame: the
\* first call writes min(28, size_t(512 - dmxChanStart)) bytes from
\* dmxChanStart on, the second, if dmxChanStart + 28 > 512, writes
\* dmxChanStart + 28 - 512 bytes from index 0 on
Writes(frame) ==
    LET start == DmxChanStart(frame)
        n1 == Min(DataSize, SizeT(DMX_BUFSIZE - start))
        n2 == IF start + DataSize > DMX_BUFSIZE
                THEN SizeT(start + DataSize - DMX_BUFSIZE) ELSE 0
    IN  (start..(start + n1 - 1)) \cup (0..(n2 - 1))

\* the frame makes memcpy write behind the end of dmxBuffer
OutOfBounds(frame) == ~(Writes(frame) \subseteq 0..(DMX_BUFSIZE - 1))

\* what a member or a byte may hold after a write that was not meant for it,
\* or after a read from where no payload is
Garbage == {0, 255}

\* valid frames as a transmitter of another make, or structured noise, may
\* send them: the last slice of the universe, and the slice after it
NoiseFrames(n) ==
    {Frame(WDMX_MAGIC_1, k, DMX_BUFSIZE - 1, n) : k \in {LastSlice, LastSlice + 1}}

\* an iteration that reads such a frame.  A frame that stays inside dmxBuffer
\* is processed as ever.  For slice 19 the first memcpy writes 28 bytes behind
\* the buffer, where the members declared after it lie (_lastRxMillis and the
\* counters, in the order of declaration), and the second copies 48 bytes
\* from before rxBuf.dmxData to the start of the buffer: what the members
\* hold afterwards depends on the layout of the object, so each keeps the
\* value the iteration gave it or holds garbage
RxNoise ==
    /\ pc = "running"
    /\ air.count < air.limit
    /\ \E frame \in NoiseFrames(air.count) :
        IF ~OutOfBounds(frame)
          THEN _dmxReceiveLoop(FALSE, TRUE, frame)
          ELSE /\ rxBuf' = frame
               /\ _captureBuffer' = Capture(_captureBuffer, _capture, frame)
               /\ firstFrame' = FALSE
               /\ prevPayloadID' = frame.payloadID
               /\ \E g \in Garbage :
                    dmxBuffer' = [i \in 0..(DMX_BUFSIZE - 1) |->
                                    IF i \in Writes(frame) THEN g ELSE dmxBuffer[i]]
               /\ _rxCount' \in {_rxCount + 1} \cup Garbage
               /\ _rxInvalid' \in {_rxInvalid} \cup Garbage
               /\ _rxOverruns' \in {_rxOverruns} \cup Garbage
               /\ _rxSeqErrors' \in
                     {IF ~firstFrame /\ SeqGap(frame, prevPayloadID)
                        THEN _rxSeqErrors + 1 ELSE _rxSeqErrors} \cup Garbage
               /\ _lastRxMillis' \in {_lastRxMillis} \cup Garbage
               /\ UNCHANGED <<pc, scanCallback, scanVars, radio, _capture, serial,
                              oldTasks, reader>>
    /\ air' = [air EXCEPT !.count = @ + 1, !.log = Append(@, Header(rxBuf'))]

\* an iteration that reads the next frame of a compatible transmitter's stream
RxStream ==
    /\ air.count < air.limit
    /\ \E fifoFull \in FifoReports :
        _dmxReceiveLoop(fifoFull, TRUE, Frame(StreamMagic(air.count), air.next, air.h, air.count))
    /\ air' = [air EXCEPT !.count = @ + 1, !.next = NextSlice(@, air.h),
                          !.log = Append(@, Header(rxBuf'))]

(***************************************************************************)
(* Specifications                                                           *)
(***************************************************************************)
\* what the members without an initialiser may hold before begin sets them:
\* memory of zeroes (a static object) or of ones
PowerOnFill == {0, 255}

\* the highest channel IDs of the universes a compatible transmitter streams
StreamHighest == {0, 55, 83, DMX_BUFSIZE - 1}

\* a stream <<h, first>>: a universe size and the slice the receive task reads
\* first (the task may start anywhere in the transmitter's cycle)
Streams == {st \in StreamHighest \X (0..LastSlice) : st[2] <= st[1] \div DataSize}

\* the state after construction: the counters are 0 by their initialisers, the
\* other members hold what the memory held; the transmitter sits on one of
\* `places`, switched on or not, and will deliver `limit` frames
InitWith(places, powered, limit, streams) ==
    /\ pc = "idle"
    /\ scanCallback = FALSE
    /\ _configID \in PowerOnFill
    /\ _ID \in PowerOnFill
    /\ _channel \in PowerOnFill
    /\ _locked \in BOOLEAN
    /\ _rxCount = 0
    /\ _rxInvalid = 0
    /\ _rxOverruns = 0
    /\ _rxSeqErrors = 0
    /\ \E fill \in PowerOnFill : dmxBuffer = [i \in 0..(DMX_BUFSIZE - 1) |-> fill]
    /\ prevPayloadID = 0
    /\ firstFrame = TRUE
    /\ rxBuf = NoFrame
    /\ radio = Untuned
    /\ \E place \in places, on \in powered, st \in streams :
        air = [channel |-> place[1], id |-> place[2], on |-> on,
               count |-> 0, limit |-> limit, first |-> st[2], next |-> st[2], h |-> st[1],
               log |-> <<>>, captured |-> <<>>, drainFrom |-> 0, full |-> 0]
    /\ _lastRxMillis = 0
    /\ _captureBuffer = <<>>
    /\ serial = [out |-> <<>>, busy |-> FALSE]
    /\ oldTasks = <<>>
    /\ reader = NoReader

\* the application has not asked for a capture and the memory of _capture,
\* which has no initialiser, held zero
CaptureOff == _capture = FALSE

\* arbitrary traffic after a lock on channel 1 as unit 2
Init == InitWith({<<1, 2>>}, BOOLEAN, MaxFrames, {<<DMX_BUFSIZE - 1, 0>>}) /\ CaptureOff

Next ==
    \/ Begin
    \/ _scanNext
    \/ ScanCallback
    \/ BeginFinish
    \/ TxPowerOn
    \/ RxIdle
    \/ RxAny

Spec == Init /\ [][Next]_vars

\* a compatible transmitter streaming its universe, slice after slice
InitStream == InitWith({<<1, 2>>}, {TRUE}, MaxStreamFrames, Streams) /\ CaptureOff

NextStream ==
    \/ Begin
    \/ _scanNext
    \/ ScanCallback
    \/ BeginFinish
    \/ RxIdle
    \/ RxStream

SpecStream == InitStream /\ [][NextStream]_vars

\* the scan over the channels and unit IDs, for transmitters on the first
\* channel, a middle channel and the last channel
ScanPlaces == {0, 40, NumChannels - 1} \X {RED, 3, WHITE}

InitScan ==
    InitWith(ScanPlaces, BOOLEAN, MaxScanFrames, {<<DMX_BUFSIZE - 1, 0>>}) /\ CaptureOff

SpecScan == InitScan /\ [][Next]_vars

\* the receiver is an object with static storage: the members without an
\* initialiser hold zero
StaticObject ==
    /\ _configID = 0
    /\ _ID = 0
    /\ _channel = 0
    /\ _locked = FALSE
    /\ dmxBuffer = ClearedBuffer

\* begin called more than once on the same receiver, the transmitter on
\* channel 0 as unit 1
InitSessions ==
    InitWith({<<0, RED>>}, {TRUE}, MaxSessionFrames, {<<DMX_BUFSIZE - 1, 0>>})
    /\ StaticObject
    /\ CaptureOff

NextSessions ==
    \/ Begin
    \/ _scanNext
    \/ ScanCallback
    \/ BeginFinish
    \/ BeginAgain
    \/ RxIdle
    \/ RxSession
    \/ RxOld

SpecSessions == InitSessions /\ [][NextSessions]_vars

\* the capture: _capture has no initialiser, so it may be set from the start
InitCapture ==
    /\ InitWith({<<0, RED>>}, {TRUE}, MaxCaptureFrames, {<<DMX_BUFSIZE - 1, 0>>})
    /\ StaticObject
    /\ _capture \in BOOLEAN

NextCapture ==
    \/ Begin
    \/ _scanNext
    \/ ScanCallback
    \/ BeginFinish
    \/ startCapture
    \/ stopCapture
    \/ printCapture
    \/ PrintNext
    \/ RxIdle
    \/ RxCapture

SpecCapture == InitCapture /\ [][NextCapture]_vars

\* a consumer reading while the transmitter streams a universe of 56 or of 84
\* channels, slice after slice
InitRead ==
    /\ InitWith({<<0, RED>>}, {TRUE}, MaxReadFrames, {<<55, 0>>, <<83, 0>>})
    /\ StaticObject
    /\ CaptureOff

NextRead ==
    \/ Begin
    \/ _scanNext
    \/ ScanCallback
    \/ BeginFinish
    \/ getValues
    \/ GetValuesCopy
    \/ RxIdle
    \/ RxStream

SpecRead == InitRead /\ [][NextRead]_vars

\* the address of every channel and unit ID: begin(u) has been called, no
\* transmitter is on, and the scan has come to channel c after c failed probes
InitAddress ==
    /\ pc = "scan"
    /\ scanCallback = FALSE
    /\ \E c \in 0..(NumChannels - 1), u \in UnitIDs :
        /\ _configID = u
        /\ _ID = u
        /\ _channel = c
        /\ radio = IF c = 0 THEN Untuned ELSE Tuned(c - 1, u)
    /\ _locked = FALSE
    /\ _rxCount = 0
    /\ _rxInvalid = 0
    /\ _rxOverruns = 0
    /\ _rxSeqErrors = 0
    /\ dmxBuffer = ClearedBuffer
    /\ prevPayloadID = 0
    /\ firstFrame = TRUE
    /\ rxBuf = NoFrame
    /\ air = [channel |-> 0, id |-> RED, on |-> FALSE, count |-> 0, limit |-> 0,
              first |-> 0, next |-> 0, h |-> DMX_BUFSIZE - 1, log |-> <<>>,
              captured |-> <<>>, drainFrom |-> 0, full |-> 0]
    /\ _lastRxMillis = 0
    /\ _capture = FALSE
    /\ _captureBuffer = <<>>
    /\ serial = [out |-> <<>>, busy |-> FALSE]
    /\ oldTasks = <<>>
    /\ reader = NoReader

SpecAddress == InitAddress /\ [][_scanNext]_vars

\* the FIFO polls of the receive loop
InitPoll ==
    /\ InitWith({<<0, RED>>}, {TRUE}, MaxPollFrames, {<<DMX_BUFSIZE - 1, 0>>})
    /\ StaticObject
    /\ CaptureOff

NextPoll ==
    \/ Begin
    \/ _scanNext
    \/ ScanCallback
    \/ BeginFinish
    \/ RxPoll

SpecPoll == InitPoll /\ [][NextPoll]_vars

\* valid frames with sequence indices up to and beyond the universe
InitNoise ==
    /\ InitWith({<<0, RED>>}, {TRUE}, MaxNoiseFrames, {<<DMX_BUFSIZE - 1, 0>>})
    /\ StaticObject
    /\ CaptureOff

NextNoise ==
    \/ Begin
    \/ _scanNext
    \/ ScanCallback
    \/ BeginFinish
    \/ RxIdle
    \/ RxNoise

SpecNoise == InitNoise /\ [][NextNoise]_vars

\* begin's loop runs on the caller's thread until the lock: each scan step,
\* each callback and the start of the receive task is eventually taken
LiveScan ==
    /\ InitScan
    /\ [][Next]_vars
    /\ WF_vars(_scanNext)
    /\ WF_vars(ScanCallback)
    /\ WF_vars(BeginFinish)

(***************************************************************************)
(* Claims                                                                   *)
(***************************************************************************)
\* begin has initialised the scan
Scanning == pc # "idle"

\* this step hands a frame to the receive task; the frame is rxBuf'
Delivered == air'.count = air.count + 1

\* the headers of the valid frames delivered so far, oldest first
ValidSoFar == SelectSeq(air.log, LAMBDA e : e.magic \in {WDMX_MAGIC_1, WDMX_MAGIC_2})

\* the previous valid frame of the session (there is one)
PrevValid == ValidSoFar[Len(ValidSoFar)]

\* frame b is the one a transmitter sends right after frame a
Contiguous(a, b) ==
    /\ a.highestChannelID = b.highestChannelID
    /\ a.payloadID <= a.highestChannelID \div 28
    /\ b.payloadID = IF a.payloadID = a.highestChannelID \div 28 THEN 0 ELSE a.payloadID + 1

\* C1: a valid frame with sequenceIndex s in 0..18 puts its first
\* min(28, 512 - 28s) payload bytes at dmxBuffer[28s ..], the rest of the
\* payload (when 28s + 28 > 512) at dmxBuffer[0 ..], and changes no other byte
C1_PayloadPlacement ==
    [][(Delivered /\ (rxBuf'.magic \in {WDMX_MAGIC_1, WDMX_MAGIC_2})
                  /\ (rxBuf'.payloadID \in 0..18))
        => LET offset == rxBuf'.payloadID * 28
               n == Min(28, 512 - offset)
           IN  \A i \in 0..511 :
                 dmxBuffer'[i] =
                    IF (offset <= i) /\ (i < offset + n) THEN rxBuf'.dmxData[i - offset]
                    ELSE IF i < offset + 28 - 512 THEN rxBuf'.dmxData[512 - offset + i]
                    ELSE dmxBuffer[i]]_vars

\* slice 18 has been written over a buffer that holds slice 1 of an earlier
\* frame: its first 8 bytes sit at 504..511, its last 20 bytes at 0..19
C1_Witness ==
    /\ pc = "running"
    /\ _rxCount = 2
    /\ air.log[1].payloadID = 1
    /\ rxBuf.magic = WDMX_MAGIC_1
    /\ rxBuf.payloadID = 18
    /\ dmxBuffer[504] = rxBuf.dmxData[0]
    /\ dmxBuffer[0] = rxBuf.dmxData[8]
    /\ dmxBuffer[19] = rxBuf.dmxData[27]
    /\ dmxBuffer[28] # 0

\* C2: after the frames 0, 1, ..., 18 of a 512-channel universe, read in that
\* order by a freshly started receive task, index 28k + j holds byte j of frame
\* k, except that indices 0..19 hold bytes 8..27 of frame 18
C2_Universe ==
    (pc = "running" /\ air.h = 511 /\ air.first = 0 /\ air.count = 19)
        => \A i \in 0..511 :
              dmxBuffer[i] = IF i < 20 THEN StreamFrame(18).dmxData[8 + i]
                             ELSE StreamFrame(i \div 28).dmxData[i % 28]

\* the 19 frames have been read
C2_Witness ==
    /\ pc = "running"
    /\ air.h = 511
    /\ air.first = 0
    /\ air.count = 19
    /\ _rxCount = 19
    /\ rxBuf.payloadID = 18
    /\ dmxBuffer[0] = rxBuf.dmxData[8]

\* C3: a frame whose magic is neither 0x80 nor 0xA0 adds 1 to _rxInvalid and
\* leaves _rxCount, _rxSeqErrors, the remembered sequence index and dmxBuffer
\* alone; and a valid frame that follows an invalid one and is contiguous with
\* the valid frame before that is not counted as a sequence error
C3_InvalidFrameIgnored ==
    [][Delivered =>
        /\ (rxBuf'.magic \notin {WDMX_MAGIC_1, WDMX_MAGIC_2})
              => /\ _rxInvalid' = _rxInvalid + 1
                 /\ UNCHANGED <<_rxCount, _rxSeqErrors, prevPayloadID, dmxBuffer>>
        /\ (/\ Len(air.log) >= 2
            /\ air.log[Len(air.log) - 1].magic \in {WDMX_MAGIC_1, WDMX_MAGIC_2}
            /\ air.log[Len(air.log)].magic \notin {WDMX_MAGIC_1, WDMX_MAGIC_2}
            /\ rxBuf'.magic \in {WDMX_MAGIC_1, WDMX_MAGIC_2}
            /\ Contiguous(air.log[Len(air.log) - 1], rxBuf'))
              => _rxSeqErrors' = _rxSeqErrors]_vars

\* slice 0, a frame that is not Wireless DMX, slice 1: one invalid frame
\* counted, no sequence error
C3_Witness ==
    /\ Len(air.log) = 3
    /\ air.log[1].magic = WDMX_MAGIC_1 /\ air.log[1].payloadID = 0
    /\ air.log[1].highestChannelID = 511
    /\ air.log[2].magic = 0
    /\ air.log[3].magic = WDMX_MAGIC_1 /\ air.log[3].payloadID = 1
    /\ air.log[3].highestChannelID = 511
    /\ _rxInvalid = 1
    /\ _rxCount = 2
    /\ _rxSeqErrors = 0

\* C4 as claimed: a valid frame that is not the first valid frame of the
\* session adds 1 to _rxSeqErrors exactly if its sequenceIndex differs from
\* expected, which is 0 when the previous valid frame sat on its own wrap index
\* (its highestChannelID / 28) and the previous sequenceIndex + 1 otherwise;
\* the first valid frame adds nothing
C4_AsClaimed ==
    [][(Delivered /\ (rxBuf'.magic \in {WDMX_MAGIC_1, WDMX_MAGIC_2}))
        => IF Len(ValidSoFar) = 0
             THEN _rxSeqErrors' = _rxSeqErrors
             ELSE LET expected == IF PrevValid.payloadID = PrevValid.highestChannelID \div 28
                                    THEN 0 ELSE PrevValid.payloadID + 1
                  IN  _rxSeqErrors' =
                         _rxSeqErrors + (IF rxBuf'.payloadID # expected THEN 1 ELSE 0)]_vars

\* C4 as amended: a valid frame that is not the first valid frame of the
\* session adds 1 to _rxSeqErrors exactly if its sequenceIndex is above 0 and
\* is not the previous valid frame's sequenceIndex + 1, or is 0 while the
\* previous valid frame's sequenceIndex is not this frame's wrap index (this
\* frame's highestChannelID / 28); the first valid frame adds nothing
C4_SeqErrorRule ==
    [][(Delivered /\ (rxBuf'.magic \in {WDMX_MAGIC_1, WDMX_MAGIC_2}))
        => IF Len(ValidSoFar) = 0
             THEN _rxSeqErrors' = _rxSeqErrors
             ELSE LET gap == \/ /\ rxBuf'.payloadID > 0
                                /\ rxBuf'.payloadID # PrevValid.payloadID + 1
                             \/ /\ rxBuf'.payloadID = 0
                                /\ PrevValid.payloadID # rxBuf'.highestChannelID \div 28
                  IN  _rxSeqErrors' = _rxSeqErrors + (IF gap THEN 1 ELSE 0)]_vars

\* slice 18 of a full universe, then slice 0 of a full universe (no error),
\* then slice 0 of an 84-channel universe, whose wrap index is 2 (an error)
C4_Witness ==
    /\ Len(air.log) = 3
    /\ air.log[1] = [magic |-> WDMX_MAGIC_1, payloadID |-> 18, highestChannelID |-> 511]
    /\ air.log[2] = [magic |-> WDMX_MAGIC_1, payloadID |-> 0, highestChannelID |-> 511]
    /\ air.log[3] = [magic |-> WDMX_MAGIC_1, payloadID |-> 0, highestChannelID |-> 83]
    /\ _rxCount = 3
    /\ _rxSeqErrors = 1

\* the frames delivered so far are the valid frames of one transmitter, all
\* with the same highestChannelID, their sequenceIndex running up to the wrap
\* index and on from 0
StreamSoFar ==
    \A n \in 1..Len(air.log) :
        /\ air.log[n].magic \in {WDMX_MAGIC_1, WDMX_MAGIC_2}
        /\ air.log[n].highestChannelID = air.h
        /\ air.log[n].payloadID = StreamSlice(air.first, air.h, n - 1)

\* C5: fed only the contiguous valid frames of one universe size, for any
\* number of cycles, the receive task has counted every frame in _rxCount and
\* none in _rxInvalid or _rxSeqErrors
C5_CleanStream ==
    StreamSoFar => /\ _rxCount = Len(air.log)
                   /\ _rxInvalid = 0
                   /\ _rxSeqErrors = 0

\* two full cycles of a 512-channel universe have been read
C5_Witness ==
    /\ StreamSoFar
    /\ air.h = 511
    /\ air.first = 0
    /\ Len(air.log) = 38
    /\ air.log[19].payloadID = 18
    /\ air.log[20].payloadID = 0
    /\ _rxCount = 38

\* C6: a valid frame whose sequenceIndex is the previous valid frame's + 2
\* adds exactly 1 to _rxSeqErrors and is processed all the same: _rxCount
\* grows by 1, the payload is in dmxBuffer from sequenceIndex * 28 on, and the
\* sequenceIndex is the one remembered for the next comparison
C6_GapIsAdvisory ==
    [][(/\ Delivered
        /\ rxBuf'.magic \in {WDMX_MAGIC_1, WDMX_MAGIC_2}
        /\ Len(ValidSoFar) > 0
        /\ rxBuf'.payloadID = PrevValid.payloadID + 2)
        => /\ _rxSeqErrors' = _rxSeqErrors + 1
           /\ _rxCount' = _rxCount + 1
           /\ prevPayloadID' = rxBuf'.payloadID
           /\ \A j \in 0..27 :
                dmxBuffer'[(rxBuf'.payloadID * 28 + j) % 512] = rxBuf'.dmxData[j]]_vars

\* slice 1 then slice 3: one sequence error, and slice 3 sits at 84..111
C6_Witness ==
    /\ Len(air.log) = 2
    /\ air.log[1].magic = WDMX_MAGIC_1 /\ air.log[1].payloadID = 1
    /\ air.log[2].magic = WDMX_MAGIC_1 /\ air.log[2].payloadID = 3
    /\ _rxSeqErrors = 1
    /\ _rxCount = 2
    /\ prevPayloadID = 3
    /\ dmxBuffer[84] = rxBuf.dmxData[0]
    /\ dmxBuffer[111] = rxBuf.dmxData[27]

\* C7: once the transmitter on (air.channel, air.id) is on and begin was called
\* with that unit ID or with AUTO, begin eventually leaves the scan loop with
\* _locked true, _channel the transmitter's channel and _ID its unit ID
C7_ScanLocks ==
    (Scanning /\ air.on /\ (_configID \in {AUTO, air.id}))
        ~> (pc = "running" /\ _locked /\ (_channel = air.channel) /\ (_ID = air.id))

\* a lock on channel 40 as unit 3 reached by begin(AUTO)
C7_Witness ==
    /\ pc = "running"
    /\ _locked
    /\ _configID = AUTO
    /\ _channel = 40
    /\ _ID = 3
    /\ air.channel = 40
    /\ air.id = 3

\* C8: within a session _locked, once true, stays true and _channel and _ID
\* no longer change, whatever step follows; and they are the channel and unit
\* ID of the probe that found the transmitter
C8_LockIsFinal ==
    /\ [][(Scanning /\ _locked)
            => (_locked' /\ (_channel' = _channel) /\ (_ID' = _ID))]_vars
    /\ []((Scanning /\ _locked)
            => /\ radio = Tuned(_channel, _ID)
               /\ _channel = air.channel
               /\ _ID = air.id)

\* the receive task has read a frame on the locked link on channel 125
C8_Witness ==
    /\ pc = "running"
    /\ _locked
    /\ air.count = 1
    /\ _channel = 125
    /\ radio = Tuned(125, _ID)

\* C9 as claimed: once begin has initialised the scan, _channel and the channel
\* the radio is tuned to are below 126
C9_ChannelInRange ==
    Scanning => /\ _channel \in 0..125
                /\ radio.channel \in 0..125

\* C10: once begin has initialised the scan, _ID is one of the IDs 1..7 and so
\* is the ID in the pipe address of every probe
C10_ConcreteID ==
    Scanning => /\ _ID \in 1..7
                /\ (radio # Untuned) => (radio.pipe[2] \in 1..7)

\* the AUTO scan has gone from unit ID 7 back to unit ID 1
C10_Witness ==
    /\ pc = "scan"
    /\ _configID = AUTO
    /\ radio # Untuned
    /\ radio.pipe[2] = WHITE
    /\ _ID = RED
    /\ _channel = 0

\* this step is a probe of the scan that did not find a transmitter
FailedProbe == (pc = "scan") /\ ~_locked /\ (radio' # radio) /\ ~_locked'

\* C11: when begin was given a concrete unit ID u, _ID is u in every state of
\* the scan and every probe uses u, however many probes failed and however
\* often the channel cursor wrapped
C11_FixedID ==
    (Scanning /\ (_configID \in 1..7))
        => /\ _ID = _configID
           /\ (radio # Untuned) => (radio.pipe[2] = _configID)

\* begin(YELLOW): the channel cursor has wrapped and the scan goes on as unit 3
C11_Witness ==
    /\ pc = "scan"
    /\ ~_locked
    /\ _configID = 3
    /\ _ID = 3
    /\ _channel = 0
    /\ radio # Untuned
    /\ radio.channel = ScanChannelLimit
    /\ radio.pipe[2] = 3
    /\ air.channel = 40

\* C12 as claimed: under AUTO every failed probe is a probe of one of the
\* channels 0..125, and it moves the cursor to the next channel with the same
\* unit ID, except that the failed probe of channel 125 moves it to channel 0
\* of the next unit ID (7 going on with 1)
C12_AutoOrder ==
    [][(FailedProbe /\ (_configID = AUTO))
        => /\ radio'.channel \in 0..125
           /\ <<_channel', _ID'>> =
                 IF _channel = 125 THEN <<0, IF _ID = 7 THEN 1 ELSE _ID + 1>>
                 ELSE <<_channel + 1, _ID>>]_vars

\* C13: while _locked is false in a session, begin is still in its scan loop
\* and the session's receive task does not exist: in the first session no
\* frame has been read, no counter has moved and dmxBuffer is as it was, and in
\* a later session whatever moves the counters or dmxBuffer is an iteration of
\* a task of an earlier session
C13_ScanThenReceive ==
    /\ []((Scanning /\ ~_locked)
            => /\ pc \in {"scan", "callback"}
               /\ ReceiveTasks = Len(oldTasks)
               /\ (oldTasks = <<>>)
                     => (_rxCount = 0 /\ _rxInvalid = 0 /\ _rxSeqErrors = 0 /\ air.count = 0))
    /\ [][(Scanning /\ ~_locked
             /\ <<_rxCount, _rxInvalid, _rxSeqErrors, dmxBuffer>>'
                   # <<_rxCount, _rxInvalid, _rxSeqErrors, dmxBuffer>>)
            => ((oldTasks' # oldTasks) /\ UNCHANGED taskLocals)]_vars

\* the second begin is scanning, not yet locked, while the task of the first
\* session has read two frames
C13_Witness ==
    /\ pc = "callback"
    /\ ~_locked
    /\ Len(oldTasks) = 1
    /\ radio.channel = 3
    /\ air.count = 2
    /\ _rxCount = 1
    /\ _rxInvalid = 1

\* this step is a call of begin
BeginCalled == (pc \in {"idle", "running"}) /\ (pc' = "scan")

\* C14 as claimed: whenever begin starts a session's receive task, the first
\* time or again, _rxCount, _rxInvalid, _rxOverruns and _rxSeqErrors are 0, and
\* no step other than a call of begin makes one of them smaller
C14_CountersReset ==
    /\ [][((pc = "scan") /\ (pc' = "running"))
            => (_rxCount' = 0 /\ _rxInvalid' = 0 /\ _rxOverruns' = 0 /\ _rxSeqErrors' = 0)]_vars
    /\ [][BeginCalled \/ (/\ _rxCount' >= _rxCount
                           /\ _rxInvalid' >= _rxInvalid
                           /\ _rxOverruns' >= _rxOverruns
                           /\ _rxSeqErrors' >= _rxSeqErrors)]_vars

\* C15 as claimed: a step that reads a frame with a valid magic sets
\* _lastRxMillis to the time of that step; a step that reads a frame with an
\* invalid magic, or reads no frame (whether or not the FIFO was reported
\* full), leaves _lastRxMillis as it was
C15_LastRxRecorded ==
    [][/\ (Delivered /\ IsMagic(rxBuf'.magic)) => (_lastRxMillis' = millis')
       /\ (Delivered /\ ~IsMagic(rxBuf'.magic)) => (_lastRxMillis' = _lastRxMillis)
       /\ (~Delivered) => (_lastRxMillis' = _lastRxMillis)]_vars

\* the last n elements of a sequence, or all of it
LastN(seq, n) == SubSeq(seq, Len(seq) - Min(n, Len(seq)) + 1, Len(seq))

\* this step is the one in which printCapture finds the ring empty and returns
PrintReturns == serial.busy /\ ~serial'.busy

\* C16: the ring never holds more than its capacity N; once N + 1 or more
\* frames have been read with capture enabled and printCapture has not run
\* since, isCaptureBufferFull() is true and the ring holds the last N of them,
\* oldest first; and a printCapture that starts then, with no frame captured
\* while it runs, has printed exactly those N frames in that order when it
\* returns, and leaves the ring empty
C16_CaptureRing ==
    /\ [](Len(_captureBuffer) <= CaptureCapacity)
    /\ []((~serial.busy /\ Len(air.captured) >= CaptureCapacity + 1)
            => /\ isCaptureBufferFull
               /\ _captureBuffer = LastN(air.captured, CaptureCapacity))
    /\ [][(/\ PrintReturns
            /\ air.drainFrom >= CaptureCapacity + 1
            /\ Len(air.captured) = air.drainFrom)
            => /\ serial'.out = LastN(air.captured, CaptureCapacity)
               /\ _captureBuffer' = <<>>]_vars

\* N + 2 frames were captured, one of them not Wireless DMX, and printCapture
\* has printed the last N of them
C16_Witness ==
    /\ ~serial.busy
    /\ air.drainFrom = CaptureCapacity + 2
    /\ air.count = CaptureCapacity + 2
    /\ Len(serial.out) = CaptureCapacity
    /\ serial.out[1] = Frame(255, 1, 83, 2)
    /\ serial.out[CaptureCapacity] = Frame(WDMX_MAGIC_1, CaptureCapacity + 1, 511, CaptureCapacity + 1)
    /\ _captureBuffer = <<>>
    /\ _rxInvalid = 1

\* the execution contexts that write dmxBuffer or are about to: the receive
\* tasks, and begin between its scan loop and its clearing of the buffer
Writers == ReceiveTasks + (IF (pc = "scan") /\ _locked THEN 1 ELSE 0)

\* C17 as claimed: in every state at most one execution context writes
\* dmxBuffer, also when begin is called again on the same receiver
C17_SingleWriter == Writers <= 1

\* C18: a step of getValues changes nothing but the consumer's copy (not the
\* buffer, not the task's state, not the frames waiting in the radio), so it
\* neither disables nor delays the receive loop: the loop can take its next
\* iteration after the step exactly if it could before, and while the task
\* runs it can always take one, whatever the consumer is doing
C18_ReadsNeverBlock ==
    /\ [][(reader' # reader)
            => /\ UNCHANGED <<pc, scanVars, counters, dmxBuffer, taskLocals, radio, air>>
               /\ (ENABLED RxIdle)' = ENABLED RxIdle]_vars
    /\ []((pc = "running") => ENABLED RxIdle)

\* a torn snapshot: getValues(27, 4) has returned channels 27 and 28 as the
\* first transmission of the universe set them (frame 0, slice 0) and
\* channels 29 and 30 as the second transmission set them (frame 3, slice 1)
C18_Witness ==
    /\ reader.calls = 1
    /\ reader.at = 26
    /\ air.h = 55
    /\ reader.copied = <<TxByte(0, 26), TxByte(0, 27), TxByte(3, 28), TxByte(3, 29)>>
    /\ air.count >= 4

\* C19: for every channel c in 0..125 and unit ID u in 1..7 the address the
\* probe of (c, u) opens its reading pipe with has the bytes c, u, 255 - c,
\* 255 - u and (c + u) mod 256, in this order, and no other channel and unit
\* ID of that range has the same address
C19_Address ==
    [][((radio' # radio) /\ (_channel \in 0..125) /\ (_ID \in 1..7))
        => /\ radio'.pipe = <<_channel, _ID, 255 - _channel, 255 - _ID,
                               (_channel + _ID) % 256>>
           /\ \A c \in 0..125, u \in 1..7 :
                 (<<c, u>> # <<_channel, _ID>>) => (_getAddress(c, u) # radio'.pipe)]_vars

\* channel 125 has been probed as unit 7: the address is 7D 07 82 F8 84
C19_Witness ==
    /\ radio # Untuned
    /\ radio.channel = 125
    /\ radio.pipe = <<125, 7, 130, 248, 132>>
    /\ _channel = 126
    /\ _ID = 7

\* this step is a probe of the scan
Probe == (pc = "scan") /\ ~_locked /\ (radio' # radio)

\* C20: a probe sets _locked exactly if the radio, tuned by the probe, hears
\* the transmitter, the only source of frames with magic 0x80 or 0xA0; a probe
\* that hears nothing, or reads a frame with another magic, leaves _locked
\* false, moves the cursor on to the next channel (from the last one to
\* channel 0) and begin stays in its scan loop
C20_ProbeLocksOnMagic ==
    [][Probe
        => /\ _locked' <=> Heard(radio')
           /\ _locked' => (<<_channel', _ID'>> = <<_channel, _ID>>)
           /\ ~_locked' => /\ _channel' # _channel
                           /\ (_channel' = _channel + 1) \/ (_channel' = 0)
                           /\ pc' \in {"scan", "callback"}
                           /\ (ENABLED (_scanNext \/ ScanCallback))']_vars

\* the transmitter is on, on channel 40: the probes of channels 0..4 have
\* failed and the scan goes on with channel 5
C20_Witness ==
    /\ pc = "scan"
    /\ ~_locked
    /\ air.on
    /\ air.channel = 40
    /\ _configID = 3
    /\ radio # Untuned
    /\ radio.channel = 4
    /\ _channel = 5

\* the payload of the frame is in buf, from 28 * sequenceIndex on, going on at
\* index 0 after index 511
Placed(buf, frame) ==
    \A j \in 0..27 : buf[(frame.payloadID * 28 + j) % 512] = frame.dmxData[j]

\* C21: _rxOverruns counts the FIFO-full answers of the radio, one for each,
\* in iterations with and without a payload; and what an iteration does to
\* the other counters and to dmxBuffer depends only on the payload it reads,
\* not on the FIFO-full answer: nothing without a payload, one more invalid
\* frame for an invalid magic, one more received frame placed in dmxBuffer for
\* a valid one
C21_OverrunIndependent ==
    /\ [](_rxOverruns = air.full)
    /\ [][(pc = "running" /\ pc' = "running")
            => /\ (_rxOverruns' = _rxOverruns + 1) <=> (air'.full = air.full + 1)
               /\ (_rxOverruns' = _rxOverruns) <=> (air'.full = air.full)
               /\ ~Delivered => UNCHANGED <<_rxCount, _rxInvalid, _rxSeqErrors, dmxBuffer>>
               /\ (Delivered /\ ~IsMagic(rxBuf'.magic))
                     => /\ _rxInvalid' = _rxInvalid + 1
                        /\ UNCHANGED <<_rxCount, _rxSeqErrors, dmxBuffer>>
               /\ (Delivered /\ IsMagic(rxBuf'.magic))
                     => /\ _rxCount' = _rxCount + 1
                        /\ _rxInvalid' = _rxInvalid
                        /\ Placed(dmxBuffer', rxBuf')]_vars

\* the radio has reported its FIFO full in an iteration that found no
\* payload: no frame has been read yet and one overrun is counted
C21_Witness ==
    /\ pc = "running"
    /\ air.full = 1
    /\ air.count = 0
    /\ _rxOverruns = 1
    /\ _rxCount = 0
    /\ _rxInvalid = 0
    /\ dmxBuffer = ClearedBuffer

\* C22: an iteration that reads a frame while _capture is set appends that
\* frame to the ring, whatever its magic (a full ring giving up its oldest
\* frame), and counts it in exactly one of _rxCount and _rxInvalid, so the
\* frames appended are as many as the two counters grew by; an iteration that
\* reads a frame while _capture is not set leaves the ring as it was; and the
\* ring changes in no other step than these and the pops of printCapture
C22_CaptureBeforeValidation ==
    /\ [][Delivered
            => /\ (_rxCount' + _rxInvalid') = (_rxCount + _rxInvalid) + 1
               /\ _capture
                     => _captureBuffer' = LastN(Append(_captureBuffer, rxBuf'), CaptureCapacity)
               /\ ~_capture => (_captureBuffer' = _captureBuffer)]_vars
    /\ [][(_captureBuffer' # _captureBuffer)
            => ((Delivered /\ _capture) \/ (serial.busy /\ serial' # serial))]_vars

\* frame 0, not Wireless DMX, and frame 1 were captured; capture was then
\* stopped and frame 2 was read without a change of the ring
C22_Witness ==
    /\ pc = "running"
    /\ ~_capture
    /\ ~serial.busy
    /\ air.count = 3
    /\ _captureBuffer = <<Frame(255, 1, 83, 0), Frame(WDMX_MAGIC_1, 1, 511, 1)>>
    /\ _rxInvalid >= 1
    /\ _rxCount + _rxInvalid = 3
    /\ serial.out = <<>>

\* C23 as claimed: whatever the sequenceIndex of a valid frame, every byte
\* the receive loop writes for it lands at an index in 0..511 of dmxBuffer
C23_WritesInBounds ==
    [][(Delivered /\ IsMagic(rxBuf'.magic)) => (Writes(rxBuf') \subseteq 0..511)]_vars

\* the frame-accounting rule within one run of the receive loop: the two
\* frame counters add up to the frames read, a read steps exactly one of them
\* by one, and there are fewer sequence errors than valid frames
Accounted ==
    /\ [][Delivered
            => \/ (_rxCount' = _rxCount + 1 /\ _rxInvalid' = _rxInvalid)
               \/ (_rxCount' = _rxCount /\ _rxInvalid' = _rxInvalid + 1)]_vars
    /\ [][(_rxCount' + _rxInvalid' # _rxCount + _rxInvalid) => Delivered]_vars
    /\ [](_rxSeqErrors <= (IF _rxCount >= 1 THEN _rxCount - 1 ELSE 0))

\* C24 as claimed: in every state of a session _rxCount + _rxInvalid is the
\* number of frames the session's receive loop has read since it started (none
\* when begin starts it), each frame read steps exactly one of the two
\* counters, and _rxSeqErrors <= max(_rxCount - 1, 0)
C24_FrameAccounting ==
    /\ [][((pc = "scan") /\ (pc' = "running")) => (_rxCount' + _rxInvalid' = 0)]_vars
    /\ Accounted

\* C25: with a scan callback, every scan attempt, the one that locks included,
\* is followed at once by the callback; the callback runs only right after an
\* attempt, changes nothing of the scan and returns to the loop's test, so
\* attempts and callbacks alternate, attempt first, and are equal in number
\* whenever begin is at the loop's test; begin clears dmxBuffer and starts the
\* receive task only from there, locked, after the last callback returned
C25_CallbackAfterEachProbe ==
    /\ [][(Probe /\ scanCallback) => (pc' = "callback")]_vars
    /\ [][(pc # "callback" /\ pc' = "callback") => (Probe /\ scanCallback)]_vars
    /\ [][(pc = "callback")
            => /\ pc' \in {"callback", "scan"}
               /\ UNCHANGED <<scanVars, radio, dmxBuffer, taskLocals>>]_vars
    /\ [][(pc' = "running" \/ dmxBuffer' # dmxBuffer \/ taskLocals' # taskLocals)
            => (pc # "callback" /\ (pc = "scan" => _locked))]_vars
    /\ []((pc = "callback") => scanCallback)

\* the callback running after the attempt that locked
C25_Witness ==
    /\ pc = "callback"
    /\ scanCallback
    /\ _locked
    /\ radio = Tuned(_channel, _ID)
    /\ Heard(radio)

====
